---- MODULE Spec2Model ----
(***************************************************************************)
(* Model of miai: the serde decoding of conversation answers               *)
(* (miai/src/conversation.rs) and the memoized session / device resolver   *)
(* of the command line client (cli/src/main.rs).                           *)
(***************************************************************************)
EXTENDS Integers, Sequences, FiniteSets, TLC

(***************************************************************************)
(* Bounds of the model.                                                    *)
(***************************************************************************)
\* longest `bitSet` array drawn as input
MaxBitSetLen == 1
\* number of extra (unrecognised) keys an answer object may carry
MaxExtra == 1

\* largest value of a u8 (bit_set: Option<Vec<u8>>)
U8Max == 255

(***************************************************************************)
(* JSON values (serde_json::Value): a tag and the value it holds.          *)
(***************************************************************************)
Null == [t |-> "null", v |-> 0]
Str(s) == [t |-> "str", v |-> s]
Num(n) == [t |-> "num", v |-> n]
Arr(a) == [t |-> "arr", v |-> a]
Obj(f) == [t |-> "obj", v |-> f]

\* serde_json::Map<String, Value>: a finite function from keys to values
EmptyMap == [k \in {} |-> Null]
MapPut(m, k, val) == [x \in (DOMAIN m) \cup {k} |-> IF x = k THEN val ELSE m[x]]
MapWithout(m, ks) == [x \in (DOMAIN m) \ ks |-> m[x]]
MapMerge(m1, m2) == [x \in (DOMAIN m1) \cup (DOMAIN m2) |-> IF x \in DOMAIN m1 THEN m1[x] ELSE m2[x]]

(***************************************************************************)
(* Deserialize for Answer and AnswerPayload, as serde derives it.          *)
(***************************************************************************)
\* the result of a failed decoding
DecodeErr(e) == [ok |-> FALSE, err |-> e]

\* kind: String -- only a JSON string is accepted
DecodeKind(val) ==
    IF val.t = "str" THEN [ok |-> TRUE, kind |-> val.v] ELSE DecodeErr("invalid_type")

IsU8_AnyNumber(val) == val.t = "num"
IsU8(val) == val.t = "num" /\ val.v \in 0..U8Max

\* bit_set: Option<Vec<u8>> -- null is None, an array of bytes is Some
DecodeBitSet(val) ==
    IF val.t = "null" THEN [ok |-> TRUE, some |-> FALSE, bytes |-> <<>>]
    ELSE IF val.t = "arr" /\ \A i \in DOMAIN val.v : IsU8(val.v[i])
         THEN [ok |-> TRUE, some |-> TRUE, bytes |-> [i \in DOMAIN val.v |-> val.v[i].v]]
         ELSE DecodeErr("invalid_bitSet")

\* a missing Option field decodes to None
MissingBitSet == [ok |-> TRUE, some |-> FALSE, bytes |-> <<>>]

\* the fields of the struct variants Tts { text } and Llm { text }: a map
\* holding a string `text` (other keys are ignored) or a sequence of exactly
\* one string
DecodeTextFields(val) ==
    IF val.t = "obj"
    THEN IF "text" \in DOMAIN val.v /\ val.v["text"].t = "str"
         THEN [ok |-> TRUE, text |-> val.v["text"].v]
         ELSE DecodeErr("text")
    ELSE IF val.t = "arr"
         THEN IF Len(val.v) = 1 /\ val.v[1].t = "str"
              THEN [ok |-> TRUE, text |-> val.v[1].v]
              ELSE DecodeErr("text")
         ELSE DecodeErr("struct variant")

\* the names of the tagged variants under rename_all = "camelCase"
VARIANTS_NoRename == {"Tts", "Llm"}
VARIANTS == {"tts", "llm"}

VariantOf(k) == IF k \in {"tts", "Tts"} THEN "Tts" ELSE "Llm"

TypedPayload(variant, text) == [variant |-> variant, text |-> text, map |-> EmptyMap]

\* #[serde(untagged)] Unknown(Map<String, Value>): every entry left over
UnknownPayload(rest) == [variant |-> "Unknown", text |-> "", map |-> rest]

\* the externally tagged attempt on the buffered content: the map must hold a
\* single key, that key must name a variant and its value must hold the fields
DecodeTagged(rest) ==
    IF Cardinality(DOMAIN rest) /= 1 THEN DecodeErr("map with a single key")
    ELSE LET k == CHOOSE x \in DOMAIN rest : TRUE
         IN  IF k \notin VARIANTS THEN DecodeErr("unknown variant")
             ELSE LET f == DecodeTextFields(rest[k])
                  IN  IF f.ok
                      THEN [ok |-> TRUE, payload |-> TypedPayload(VariantOf(k), f.text)]
                      ELSE f

\* AnswerPayload: the tagged variants first, then the untagged fallback
DecodePayload(rest) ==
    LET tagged == DecodeTagged(rest)
    IN  IF tagged.ok THEN tagged.payload ELSE UnknownPayload(rest)

\* Answer: `type` and `bitSet` are read as fields, every other entry is
\* collected and handed to the flattened payload
DecodeAnswer(o) ==
    IF "type" \notin DOMAIN o THEN DecodeErr("missing_type")
    ELSE LET k == DecodeKind(o["type"])
             b == IF "bitSet" \in DOMAIN o THEN DecodeBitSet(o["bitSet"]) ELSE MissingBitSet
         IN  IF ~k.ok THEN k
             ELSE IF ~b.ok THEN b
             ELSE [ok |-> TRUE, kind |-> k.kind, bit_set |-> [some |-> b.some, bytes |-> b.bytes],
                   payload |-> DecodePayload(MapWithout(o, {"type", "bitSet"}))]

(***************************************************************************)
(* Serialize for Answer and AnswerPayload.                                 *)
(***************************************************************************)
SerializeBitSet(b) ==
    IF b.some THEN Arr([i \in DOMAIN b.bytes |-> Num(b.bytes[i])]) ELSE Null

\* the entries the flattened payload adds to the answer's map
SerializePayload(p) ==
    IF p.variant = "Unknown" THEN p.map
    ELSE IF p.variant = "Tts" THEN [k \in {"tts"} |-> Obj([x \in {"text"} |-> Str(p.text)])]
    ELSE [k \in {"llm"} |-> Obj([x \in {"text"} |-> Str(p.text)])]

SerializeAnswer_NoFlatten(a) ==
    MapPut(MapPut(MapPut(EmptyMap, "type", Str(a.kind)), "bitSet", SerializeBitSet(a.bit_set)),
           "payload", Obj(SerializePayload(a.payload)))
SerializeAnswer(a) ==
    MapMerge(MapPut(MapPut(EmptyMap, "type", Str(a.kind)), "bitSet", SerializeBitSet(a.bit_set)),
             SerializePayload(a.payload))

(***************************************************************************)
(* The answer objects drawn as inputs of the decoder.                      *)
(***************************************************************************)
Absent == [t |-> "absent", v |-> 0]

RECURSIVE SeqsUpTo(_, _)
SeqsUpTo(S, n) ==
    IF n = 0 THEN {<<>>}
    ELSE LET shorter == SeqsUpTo(S, n - 1)
         IN  shorter \cup {Append(s, x) : s \in {q \in shorter : Len(q) = n - 1}, x \in S}

TypeChoices == {Absent, Null, Num(1), Str("TTS"), Str("LLM"), Str("tts"), Str("NEWFEATURE")}
BitSetChoices ==
    {Absent, Null, Str("x")} \cup {Arr(s) : s \in SeqsUpTo({Num(1), Num(U8Max + 1)}, MaxBitSetLen)}
TextObj(val) == Obj([x \in {"text"} |-> val])
TtsChoices ==
    {Absent, TextObj(Str("hello")), TextObj(Num(1)), Obj(EmptyMap),
     Obj([x \in {"text", "extra"} |-> IF x = "text" THEN Str("hello") ELSE Num(1)]),
     Arr(<<Str("hello")>>), Str("hello")}
LlmChoices == {Absent, TextObj(Str("hi")), TextObj(Null)}
TextChoices == {Absent, Str("hello"), Num(1)}
ExtraNames == <<"foo", "bar", "baz">>
ExtraKeys == {ExtraNames[i] : i \in 1..MaxExtra}
ExtraChoices == {Absent, Num(1)}

MkMap(c) == [k \in {x \in DOMAIN c : c[x] /= Absent} |-> c[k]]

AnswerInputs ==
    {MapMerge(MkMap(known), MkMap(extra)) :
        known \in [type : TypeChoices, bitSet : BitSetChoices, tts : TtsChoices,
                   llm : LlmChoices, text : TextChoices],
        extra \in [ExtraKeys -> ExtraChoices]}

(***************************************************************************)
(* The command line client: Cli and main (cli/src/main.rs).                *)
(***************************************************************************)
\* number of concurrent callers of the Cli methods
MaxCallers == 2
\* number of method calls the callers make in total
MaxCalls == 2
\* largest number of devices bound to the account
MaxDevices == 2
\* largest number of records in a conversation response
MaxRecords == 2

\* the task running main (#[tokio::main(flavor = "current_thread")])
MainTask == 0
Callers == 1..MaxCallers
Tasks == {MainTask} \cup Callers

\* DeviceInfo { device_id, name, hardware }
DeviceNames == <<"d1", "d2", "d3", "d4">>
Device(i) == [device_id |-> DeviceNames[i], name |-> "speaker", hardware |-> "LX06"]
DeviceLists == {[i \in 1..n |-> Device(i)] : n \in 0..MaxDevices}

\* Cli.device_id: Option<String>
NoneId == [some |-> FALSE, id |-> ""]
SomeId(d) == [some |-> TRUE, id |-> d]
DeviceIdArgs == {NoneId, SomeId("d1"), SomeId("zz")}

Commands == {"login", "device", "say", "play", "pause", "stop", "volume", "ask", "history", "ubus"}

\* the remote service: whether listing the devices works, and what it lists
RemoteStates ==
    {[up |-> TRUE, devices |-> l] : l \in DeviceLists} \cup {[up |-> FALSE, devices |-> <<>>]}

\* what File::open and Xiaoai::load make of the auth file
LoadOutcomes == {"ok", "CredentialsMissing", "CredentialsInvalid"}

VARIABLES raw, answer, wire, phase,
          command, device_id, xiaoai, device_info, holder, waiters, remote,
          pc, call, ret, loads, fetches, fetchesOk, ncalls,
          mpc, mainErr, target, hardware, response, printed

decodeVars == <<raw, answer, wire, phase>>
cellVars == <<xiaoai, device_info, holder, waiters, pc, call, ret, loads, fetches, fetchesOk>>
cliVars == <<command, device_id>>
mainVars == <<mpc, mainErr, target, hardware, response, printed>>
vars == <<decodeVars, cliVars, cellVars, remote, ncalls, mainVars>>

NoAnswer == DecodeErr("pending")
NoCall == [op |-> "none", loads |-> 0, fetches |-> 0, waited |-> FALSE]
NoRet ==
    [op |-> "none", ok |-> FALSE, session |-> 0, info |-> <<>>, id |-> "", err |-> "",
     choice |-> 0, loads |-> 0, fetches |-> 0, selects |-> 0, listed |-> FALSE,
     waited |-> FALSE]

(***************************************************************************)
(* Cli::xiaoai: once_cell::unsync::OnceCell::get_or_try_init.              *)
(***************************************************************************)
\* the cell holds a session (0: empty, k: the session the k-th load made)
XiaoaiCached_Never == FALSE
XiaoaiCached == xiaoai /= 0

\* the call's effect on the cell and its result, `out` being what the load
\* would give
XiaoaiCall(out) ==
    IF XiaoaiCached
    THEN [cell |-> xiaoai, ok |-> TRUE, session |-> xiaoai, err |-> "", loaded |-> 0]
    ELSE IF out = "ok"
         THEN [cell |-> loads + 1, ok |-> TRUE, session |-> loads + 1, err |-> "", loaded |-> 1]
         ELSE [cell |-> xiaoai, ok |-> FALSE, session |-> 0, err |-> out, loaded |-> 1]

(***************************************************************************)
(* Cli::device_id after the device list is in.                             *)
(***************************************************************************)
InfoOk(l) == [ok |-> TRUE, info |-> l, err |-> ""]
InfoErr(e) == [ok |-> FALSE, info |-> <<>>, err |-> e]

\* the answers Select::prompt can give: 0 is a cancelled prompt, i the i-th option
PromptAnswers(res) == 0..Len(res.info)

PickDevice_First(res, choice) ==
    IF ~res.ok THEN [ok |-> FALSE, id |-> "", err |-> res.err, selects |-> 0, choice |-> 0]
    ELSE IF Len(res.info) = 0
         THEN [ok |-> FALSE, id |-> "", err |-> "NoDevicesBound", selects |-> 0, choice |-> 0]
         ELSE [ok |-> TRUE, id |-> res.info[1].device_id, err |-> "", selects |-> 0, choice |-> 0]
PickDevice(res, choice) ==
    IF ~res.ok THEN [ok |-> FALSE, id |-> "", err |-> res.err, selects |-> 0, choice |-> 0]
    ELSE IF Len(res.info) = 0
         THEN [ok |-> FALSE, id |-> "", err |-> "NoDevicesBound", selects |-> 0, choice |-> 0]
    ELSE IF Len(res.info) = 1
         THEN [ok |-> TRUE, id |-> res.info[1].device_id, err |-> "", selects |-> 0, choice |-> 0]
    ELSE IF choice = 0
         THEN [ok |-> FALSE, id |-> "", err |-> "InputCancelled", selects |-> 1, choice |-> 0]
         ELSE [ok |-> TRUE, id |-> res.info[choice].device_id, err |-> "", selects |-> 1,
               choice |-> choice]

\* what a finished device_info() leaves as the call's result: its own when it
\* was called directly, the rest of device_id() when called from there
MethodRet(op, res, choice, acc) ==
    IF op = "device_info"
    THEN [NoRet EXCEPT !.op = op, !.ok = res.ok, !.info = res.info, !.err = res.err,
                       !.loads = acc.loads, !.fetches = acc.fetches, !.listed = res.ok,
                       !.waited = acc.waited]
    ELSE LET d == PickDevice(res, choice)
         IN  [NoRet EXCEPT !.op = op, !.ok = d.ok, !.info = res.info, !.id = d.id, !.err = d.err,
                           !.choice = d.choice, !.selects = d.selects,
                           !.loads = acc.loads, !.fetches = acc.fetches, !.listed = res.ok,
                           !.waited = acc.waited]

Finish(t, op, res, choice, acc) ==
    /\ pc' = [pc EXCEPT ![t] = "idle"]
    /\ call' = [call EXCEPT ![t] = NoCall]
    /\ ret' = [ret EXCEPT ![t] = MethodRet(op, res, choice, acc)]

(***************************************************************************)
(* Cli::device_info: tokio::sync::OnceCell::get_or_try_init.               *)
(***************************************************************************)
DeviceInfoCached == device_info.set

\* the cell's semaphore has its one permit to give
PermitFree_Always(t) == TRUE
PermitFree(t) == holder = {}

\* the permit goes back: to the first waiter, if there is one
Release ==
    IF waiters = <<>>
    THEN holder' = {} /\ waiters' = <<>>
    ELSE holder' = {Head(waiters)} /\ waiters' = Tail(waiters)

\* task t holds the permit and runs the initializer up to its await:
\* self.xiaoai()? and then the remote device_info() request
RunInit(t, op, acc, out) ==
    LET s == XiaoaiCall(out)
        acc1 == [acc EXCEPT !.loads = @ + s.loaded]
    IN  /\ xiaoai' = s.cell
        /\ loads' = loads + s.loaded
        /\ UNCHANGED <<device_info, fetchesOk>>
        /\ IF s.ok
           THEN /\ fetches' = fetches + 1
                /\ pc' = [pc EXCEPT ![t] = "fetch"]
                /\ call' = [call EXCEPT ![t] = [op |-> op, loads |-> acc1.loads,
                                                fetches |-> acc1.fetches + 1,
                                                waited |-> acc1.waited]]
                /\ holder' = {t}
                /\ UNCHANGED <<waiters, ret>>
           ELSE /\ UNCHANGED fetches
                /\ Release
                /\ Finish(t, op, InfoErr(s.err), 0, acc1)

\* device_info() is called: the cached list, the initializer, or the queue
Begin(t, op) ==
    /\ pc[t] = "idle"
    /\ IF DeviceInfoCached
       THEN /\ \E choice \in PromptAnswers(InfoOk(device_info.value)) :
                 Finish(t, op, InfoOk(device_info.value), choice, NoCall)
            /\ UNCHANGED <<xiaoai, loads, device_info, fetchesOk, fetches, holder, waiters>>
       ELSE IF PermitFree(t)
            THEN \E out \in LoadOutcomes : RunInit(t, op, NoCall, out)
            ELSE /\ pc' = [pc EXCEPT ![t] = "wait"]
                 /\ call' = [call EXCEPT ![t] = [NoCall EXCEPT !.op = op, !.waited = TRUE]]
                 /\ waiters' = Append(waiters, t)
                 /\ UNCHANGED <<xiaoai, loads, device_info, fetchesOk, fetches, holder, ret>>

\* a queued caller is woken: the cell was set meanwhile, or the permit is its own
Resume(t) ==
    /\ pc[t] = "wait"
    /\ DeviceInfoCached \/ holder = {t}
    /\ IF DeviceInfoCached
       THEN /\ \E choice \in PromptAnswers(InfoOk(device_info.value)) :
                 Finish(t, call[t].op, InfoOk(device_info.value), choice, call[t])
            /\ UNCHANGED <<xiaoai, loads, device_info, fetchesOk, fetches, holder, waiters>>
       ELSE \E out \in LoadOutcomes : RunInit(t, call[t].op, call[t], out)
    /\ UNCHANGED <<decodeVars, cliVars, remote, ncalls, mainVars>>

\* the remote request of task t comes back: a list sets the cell and closes the
\* semaphore, a failure leaves the cell empty and gives the permit back
FetchDone(t) ==
    /\ pc[t] = "fetch"
    /\ UNCHANGED <<xiaoai, loads, fetches>>
    /\ IF remote.up
       THEN /\ device_info' = [set |-> TRUE, value |-> remote.devices]
            /\ fetchesOk' = fetchesOk + 1
            /\ holder' = {}
            /\ waiters' = <<>>
            /\ \E choice \in PromptAnswers(InfoOk(remote.devices)) :
                 Finish(t, call[t].op, InfoOk(remote.devices), choice, call[t])
       ELSE /\ UNCHANGED <<device_info, fetchesOk>>
            /\ Release
            /\ Finish(t, call[t].op, InfoErr("DeviceFetchFailed"), 0, call[t])
    /\ UNCHANGED <<decodeVars, cliVars, remote, ncalls, mainVars>>

\* the remote service changes between requests
RemoteChanges ==
    /\ remote' \in RemoteStates \ {remote}
    /\ UNCHANGED <<decodeVars, cliVars, cellVars, ncalls, mainVars>>

(***************************************************************************)
(* Callers of the Cli methods, on the one thread of the runtime.           *)
(***************************************************************************)
CallXiaoai(t) ==
    /\ pc[t] = "idle"
    /\ ncalls < MaxCalls
    /\ ncalls' = ncalls + 1
    /\ \E out \in LoadOutcomes :
         LET s == XiaoaiCall(out)
         IN  /\ xiaoai' = s.cell
             /\ loads' = loads + s.loaded
             /\ ret' = [ret EXCEPT ![t] = [NoRet EXCEPT !.op = "xiaoai", !.ok = s.ok,
                                                        !.session = s.session, !.err = s.err,
                                                        !.loads = s.loaded]]
    /\ UNCHANGED <<device_info, holder, waiters, pc, call, fetches, fetchesOk>>
    /\ UNCHANGED <<decodeVars, cliVars, remote, mainVars>>

CallDeviceInfo(t) ==
    /\ ncalls < MaxCalls
    /\ ncalls' = ncalls + 1
    /\ Begin(t, "device_info")
    /\ UNCHANGED <<decodeVars, cliVars, remote, mainVars>>

\* an explicit --device-id is the answer
HasExplicit_Never == FALSE
HasExplicit == device_id.some

DeviceId(t) ==
    IF HasExplicit
    THEN /\ pc[t] = "idle"
         /\ ret' = [ret EXCEPT ![t] = [NoRet EXCEPT !.op = "device_id", !.ok = TRUE,
                                                    !.id = device_id.id]]
         /\ UNCHANGED <<xiaoai, device_info, holder, waiters, pc, call, loads, fetches, fetchesOk>>
    ELSE Begin(t, "device_id")

CallDeviceId(t) ==
    /\ ncalls < MaxCalls
    /\ ncalls' = ncalls + 1
    /\ DeviceId(t)
    /\ UNCHANGED <<decodeVars, cliVars, remote, mainVars>>

InitCells ==
    /\ xiaoai = 0
    /\ device_info = [set |-> FALSE, value |-> <<>>]
    /\ holder = {}
    /\ waiters = <<>>
    /\ pc = [t \in Tasks |-> "idle"]
    /\ call = [t \in Tasks |-> NoCall]
    /\ ret = [t \in Tasks |-> NoRet]
    /\ loads = 0
    /\ fetches = 0
    /\ fetchesOk = 0
    /\ ncalls = 0

InitDecodeIdle ==
    /\ raw = EmptyMap
    /\ answer = NoAnswer
    /\ wire = EmptyMap
    /\ phase = "start"

InitMainIdle ==
    /\ mpc = "start"
    /\ mainErr = ""
    /\ target = ""
    /\ hardware = ""
    /\ response = <<>>
    /\ printed = 0

InitCli ==
    /\ InitCells
    /\ InitDecodeIdle
    /\ InitMainIdle
    /\ command = "say"
    /\ device_id \in DeviceIdArgs
    /\ remote \in RemoteStates

NextCli ==
    \/ \E t \in Callers : CallXiaoai(t)
    \/ \E t \in Callers : CallDeviceInfo(t)
    \/ \E t \in Callers : CallDeviceId(t)
    \/ \E t \in Callers : Resume(t)
    \/ \E t \in Callers : FetchDone(t)
    \/ RemoteChanges

SpecCli == InitCli /\ [][NextCli]_vars

(***************************************************************************)
(* Deserialize for Record and Data: a conversation response.               *)
(***************************************************************************)
RECURSIVE FirstFailure(_, _)
\* the first error among the results rs[i..], or none
FirstFailure(rs, i) ==
    IF i > Len(rs) THEN [ok |-> TRUE]
    ELSE IF ~rs[i].ok THEN rs[i]
    ELSE FirstFailure(rs, i + 1)

\* Vec<Answer>: every element has to decode
DecodeAnswers(val) ==
    IF val.t /= "arr" THEN DecodeErr("invalid_answers")
    ELSE LET rs == [i \in DOMAIN val.v |->
                       IF val.v[i].t = "obj" THEN DecodeAnswer(val.v[i].v)
                       ELSE DecodeErr("invalid_answer")]
             bad == FirstFailure(rs, 1)
         IN  IF bad.ok THEN [ok |-> TRUE, answers |-> rs] ELSE bad

\* Record { answers, query, request_id, time }
DecodeRecord(val) ==
    IF val.t /= "obj" THEN DecodeErr("invalid_record")
    ELSE IF {"answers", "query", "requestId", "time"} \ (DOMAIN val.v) /= {}
         THEN DecodeErr("missing_field")
    ELSE LET a == DecodeAnswers(val.v["answers"])
         IN  IF ~a.ok THEN a
             ELSE IF val.v["query"].t /= "str" \/ val.v["requestId"].t /= "str"
                     \/ val.v["time"].t /= "num"
                  THEN DecodeErr("invalid_field")
             ELSE [ok |-> TRUE, answers |-> a.answers, query |-> val.v["query"].v,
                   request_id |-> val.v["requestId"].v, time |-> val.v["time"].v]

\* Data { records }: Vec<Record> decodes as a whole or not at all
DecodeData(val) ==
    IF val.t /= "obj" \/ "records" \notin DOMAIN val.v THEN DecodeErr("missing_records")
    ELSE IF val.v["records"].t /= "arr" THEN DecodeErr("invalid_records")
    ELSE LET rs == [i \in DOMAIN val.v["records"].v |-> DecodeRecord(val.v["records"].v[i])]
             bad == FirstFailure(rs, 1)
         IN  IF bad.ok THEN [ok |-> TRUE, records |-> rs] ELSE bad

\* the answers and records the remote service sends in a history response
SampleAnswers ==
    {[k \in {"type", "bitSet", "tts"} |->
         IF k = "type" THEN Str("TTS") ELSE IF k = "bitSet" THEN Arr(<<Num(1)>>)
         ELSE TextObj(Str("hello"))],
     [k \in {"type", "foo"} |-> IF k = "type" THEN Str("NEWFEATURE") ELSE Num(1)],
     [k \in {"foo"} |-> Num(1)],
     [k \in {"type"} |-> Num(1)]}
RawRecord(as) ==
    Obj([k \in {"answers", "query", "requestId", "time"} |->
            IF k = "answers" THEN Arr(as) ELSE IF k = "time" THEN Num(1) ELSE Str("q")])
RawRecords == {RawRecord(as) : as \in SeqsUpTo({Obj(a) : a \in SampleAnswers}, 1)}
RawData(rs) == Obj([k \in {"records"} |-> Arr(rs)])
Responses == {RawData(rs) : rs \in SeqsUpTo(RawRecords, MaxRecords)}

(***************************************************************************)
(* main.                                                                   *)
(***************************************************************************)
Exit(err) ==
    /\ mpc' = IF err = "" THEN "exit_ok" ELSE "exit_err"
    /\ mainErr' = err

\* the login command: prompts, Xiaoai::login, saving the auth file
MainLogin ==
    /\ mpc = "start"
    /\ command = "login"
    /\ \E err \in {"", "InputCancelled", "LoginFailed", "IoError"} : Exit(err)
    /\ UNCHANGED <<target, hardware, response, printed>>
    /\ UNCHANGED <<decodeVars, cliVars, cellVars, remote, ncalls>>

\* let xiaoai = cli.xiaoai()?;
MainXiaoai ==
    /\ mpc = "start"
    /\ command /= "login"
    /\ \E out \in LoadOutcomes :
         LET s == XiaoaiCall(out)
         IN  /\ xiaoai' = s.cell
             /\ loads' = loads + s.loaded
             /\ ret' = [ret EXCEPT ![MainTask] = [NoRet EXCEPT !.op = "xiaoai", !.ok = s.ok,
                                                   !.session = s.session, !.err = s.err,
                                                   !.loads = s.loaded]]
             /\ IF s.ok THEN mpc' = "loaded" /\ mainErr' = "" ELSE Exit(s.err)
    /\ UNCHANGED <<device_info, holder, waiters, pc, call, fetches, fetchesOk>>
    /\ UNCHANGED <<target, hardware, response, printed>>
    /\ UNCHANGED <<decodeVars, cliVars, remote, ncalls>>

\* the device command: cli.device_info().await? ...
MainDevice ==
    /\ mpc = "loaded"
    /\ command = "device"
    /\ Begin(MainTask, "device_info")
    /\ mpc' = "await_devices"
    /\ UNCHANGED <<mainErr, target, hardware, response, printed>>
    /\ UNCHANGED <<decodeVars, cliVars, remote, ncalls>>

\* ... and the list is printed
MainDevicePrint ==
    /\ mpc = "await_devices"
    /\ pc[MainTask] = "idle"
    /\ IF ret[MainTask].ok
       THEN Exit("") /\ printed' = Len(ret[MainTask].info)
       ELSE Exit(ret[MainTask].err) /\ UNCHANGED printed
    /\ UNCHANGED <<target, hardware, response>>
    /\ UNCHANGED <<decodeVars, cliVars, cellVars, remote, ncalls>>

\* let device_id = cli.device_id().await?;
MainDeviceId ==
    /\ mpc = "loaded"
    /\ command /= "device"
    /\ DeviceId(MainTask)
    /\ mpc' = "await_id"
    /\ UNCHANGED <<mainErr, target, hardware, response, printed>>
    /\ UNCHANGED <<decodeVars, cliVars, remote, ncalls>>

MainGotId ==
    /\ mpc = "await_id"
    /\ pc[MainTask] = "idle"
    /\ IF ret[MainTask].ok
       THEN mpc' = "have_id" /\ target' = ret[MainTask].id /\ UNCHANGED mainErr
       ELSE Exit(ret[MainTask].err) /\ UNCHANGED target
    /\ UNCHANGED <<hardware, response, printed>>
    /\ UNCHANGED <<decodeVars, cliVars, cellVars, remote, ncalls>>

\* the commands that go on to look the device up in the device list
NeedsDeviceInfo_All(cmd) == TRUE
NeedsDeviceInfo(cmd) == cmd = "history"

\* the history command: cli.device_info().await? ...
MainHistoryInfo ==
    /\ mpc = "have_id"
    /\ NeedsDeviceInfo(command)
    /\ Begin(MainTask, "device_info")
    /\ mpc' = "await_info"
    /\ UNCHANGED <<mainErr, target, hardware, response, printed>>
    /\ UNCHANGED <<decodeVars, cliVars, remote, ncalls>>

\* ... .iter().find(|x| x.device_id == device_id).ok_or_else(...)?
MainHistoryFind ==
    /\ mpc = "await_info"
    /\ pc[MainTask] = "idle"
    /\ LET r == ret[MainTask]
           found == {i \in DOMAIN r.info : r.info[i].device_id = target}
       IN  IF ~r.ok THEN Exit(r.err) /\ UNCHANGED hardware
           ELSE IF found = {} THEN Exit("DeviceNotFound") /\ UNCHANGED hardware
           ELSE /\ mpc' = "have_info"
                /\ hardware' = r.info[CHOOSE i \in found : \A j \in found : i <= j].hardware
                /\ UNCHANGED mainErr
    /\ UNCHANGED <<target, response, printed>>
    /\ UNCHANGED <<decodeVars, cliVars, cellVars, remote, ncalls>>

\* xiaoai.conversations(...).await?.records, and every record is printed
MainHistory ==
    /\ mpc = "have_info"
    /\ \/ /\ Exit("TransportError")
          /\ UNCHANGED <<response, printed>>
       \/ \E body \in Responses :
            LET data == DecodeData(body)
            IN  /\ response' = body.v["records"].v
                /\ IF data.ok
                   THEN Exit("") /\ printed' = Len(data.records)
                   ELSE Exit("MalformedAnswer") /\ UNCHANGED printed
    /\ UNCHANGED <<target, hardware>>
    /\ UNCHANGED <<decodeVars, cliVars, cellVars, remote, ncalls>>

\* the remaining commands: one request to the device, and its response printed
MainCommand ==
    /\ mpc = "have_id"
    /\ ~NeedsDeviceInfo(command)
    /\ \E err \in {"", "TransportError"} :
         /\ Exit(err)
         /\ printed' = IF err = "" THEN 1 ELSE 0
    /\ UNCHANGED <<target, hardware, response>>
    /\ UNCHANGED <<decodeVars, cliVars, cellVars, remote, ncalls>>

MainFetchDone == FetchDone(MainTask)

InitMain ==
    /\ InitCells
    /\ InitDecodeIdle
    /\ InitMainIdle
    /\ command \in Commands
    /\ device_id \in DeviceIdArgs
    /\ remote \in RemoteStates

NextMain ==
    \/ MainLogin
    \/ MainXiaoai
    \/ MainDevice
    \/ MainDevicePrint
    \/ MainDeviceId
    \/ MainGotId
    \/ MainHistoryInfo
    \/ MainHistoryFind
    \/ MainHistory
    \/ MainCommand
    \/ MainFetchDone
    \/ RemoteChanges

SpecMain == InitMain /\ [][NextMain]_vars

(***************************************************************************)
(* The decoder on its own.                                                 *)
(***************************************************************************)
InitDecode ==
    /\ raw \in AnswerInputs
    /\ answer = NoAnswer
    /\ wire = EmptyMap
    /\ phase = "start"
    /\ InitCells
    /\ InitMainIdle
    /\ command = "history"
    /\ device_id = NoneId
    /\ remote = [up |-> FALSE, devices |-> <<>>]

\* serde_json::from_value::<Answer>(raw)
Decode ==
    /\ phase = "start"
    /\ answer' = DecodeAnswer(raw)
    /\ phase' = "decoded"
    /\ UNCHANGED <<raw, wire>>
    /\ UNCHANGED <<cliVars, cellVars, remote, ncalls, mainVars>>

\* serde_json::to_value(&answer)
Encode ==
    /\ phase = "decoded"
    /\ answer.ok
    /\ wire' = SerializeAnswer(answer)
    /\ phase' = "encoded"
    /\ UNCHANGED <<raw, answer>>
    /\ UNCHANGED <<cliVars, cellVars, remote, ncalls, mainVars>>

NextDecode == Decode \/ Encode

SpecDecode == InitDecode /\ [][NextDecode]_vars

(***************************************************************************)
(* Properties of the decoder, of specification SpecDecode.                 *)
(***************************************************************************)
Decoded == phase \in {"decoded", "encoded"}
HasStr(o, k) == k \in DOMAIN o /\ o[k].t = "str"
\* to_ascii_lowercase on the discriminants drawn
AsciiLower(s) == IF s = "TTS" THEN "tts" ELSE IF s = "LLM" THEN "llm" ELSE IF s = "NEWFEATURE" THEN "newfeature" ELSE s
\* `bitSet` is absent, null or an array of bytes
BitSetFine(o) ==
    \/ "bitSet" \notin DOMAIN o
    \/ o["bitSet"].t = "null"
    \/ /\ o["bitSet"].t = "arr"
       /\ \A i \in DOMAIN o["bitSet"].v :
            o["bitSet"].v[i].t = "num" /\ o["bitSet"].v[i].v >= 0 /\ o["bitSet"].v[i].v <= U8Max
\* the keys next to `type` and `bitSet`
PayloadKeys(o) == (DOMAIN o) \ {"type", "bitSet"}
\* key k holds a string `text`, as an object or as a one-element array
NestedText(o, k) ==
    /\ k \in DOMAIN o
    /\ \/ o[k].t = "obj" /\ HasStr(o[k].v, "text")
       \/ o[k].t = "arr" /\ Len(o[k].v) = 1 /\ o[k].v[1].t = "str"
\* the one shape that decodes to Tts or Llm
TypedShape(o) == \E k \in {"tts", "llm"} : PayloadKeys(o) = {k} /\ NestedText(o, k)

\* C1 as stated: an answer whose `type` is "TTS" or "LLM" and that carries a
\* sibling `text` string decodes to the matching typed variant with that text.
C1_Original ==
    (Decoded /\ HasStr(raw, "type") /\ raw["type"].v \in {"TTS", "LLM"} /\ HasStr(raw, "text"))
        => /\ answer.ok
           /\ answer.payload.variant = (IF raw["type"].v = "TTS" THEN "Tts" ELSE "Llm")
           /\ answer.payload.text = raw["text"].v

\* C1, amended: an answer with a string `type` and a well-typed or absent
\* `bitSet` whose only other key is `tts` (or `llm`) holding an object with a
\* string `text` decodes to Tts (or Llm) with exactly that text, never Unknown.
C1_TypedVariant ==
    \A k \in {"tts", "llm"} :
        (/\ Decoded /\ HasStr(raw, "type") /\ BitSetFine(raw)
         /\ PayloadKeys(raw) = {k}
         /\ raw[k].t = "obj" /\ HasStr(raw[k].v, "text"))
        => /\ answer.ok
           /\ answer.payload.variant = (IF k = "tts" THEN "Tts" ELSE "Llm")
           /\ answer.payload.text = raw[k].v["text"].v

\* C1, reached: {"type":"TTS","bitSet":..,"tts":{"text":"hello"}} decoded to Tts.
C1_Witness ==
    /\ Decoded
    /\ DOMAIN raw = {"type", "bitSet", "tts"}
    /\ raw["type"] = Str("TTS")
    /\ raw["tts"] = TextObj(Str("hello"))
    /\ answer.ok
    /\ answer.payload.variant = "Tts"
    /\ answer.payload.text = "hello"

\* C2 as stated, for the answers that were decoded and encoded again: an answer
\* whose `type` is a string other than TTS/LLM (in any case) has decoded to
\* Unknown, and re-encoding it gives back exactly the input.
C2_Original ==
    (phase = "encoded" /\ HasStr(raw, "type") /\ AsciiLower(raw["type"].v) \notin {"tts", "llm"})
        => /\ answer.ok
           /\ answer.payload.variant = "Unknown"
           /\ wire = raw

\* C2, amended: an answer with a string `type`, a well-typed or absent `bitSet`
\* and payload keys that are not the one typed shape decodes to Unknown, and
\* re-encoding gives the input's keys and values plus `bitSet`, null when the
\* input had none.
C2_UnknownRoundTrip ==
    (Decoded /\ HasStr(raw, "type") /\ BitSetFine(raw) /\ ~TypedShape(raw))
        => /\ answer.ok
           /\ answer.payload.variant = "Unknown"
           /\ phase = "encoded" =>
                wire = (IF "bitSet" \in DOMAIN raw THEN raw ELSE MapPut(raw, "bitSet", Null))

\* C2, reached: {"type":"NEWFEATURE","foo":1,"text":..} went through Unknown and
\* came back with `bitSet` added.
C2_Witness ==
    /\ phase = "encoded"
    /\ raw["type"] = Str("NEWFEATURE")
    /\ DOMAIN raw = {"type", "foo", "text"}
    /\ answer.payload.variant = "Unknown"
    /\ DOMAIN wire = {"type", "bitSet", "foo", "text"}
    /\ wire["bitSet"] = Null

\* C3 as stated: decoding succeeds exactly when `type` is present and a string.
C3_Original == Decoded => (answer.ok <=> HasStr(raw, "type"))

\* C3, amended: decoding succeeds exactly when `type` is a string and `bitSet`
\* is absent, null or an array of bytes; no other sibling makes it fail.
C3_TotalOnTypeAndBitSet == Decoded => (answer.ok <=> (HasStr(raw, "type") /\ BitSetFine(raw)))

\* C3, reached: a novel discriminant with ill-typed `tts` and `llm` siblings
\* decoded.
C3_Witness ==
    /\ Decoded
    /\ answer.ok
    /\ raw["type"] = Str("NEWFEATURE")
    /\ {"tts", "llm", "text", "bitSet"} \subseteq DOMAIN raw
    /\ raw["tts"].t = "str"
    /\ raw["llm"] = TextObj(Null)
    /\ raw["bitSet"].t = "arr"

\* C8: an answer whose discriminant names a known variant but that holds no
\* string `text` for it, as a sibling or under the variant's key, fails to
\* decode.
C8_FailsLoudly ==
    (/\ Decoded /\ HasStr(raw, "type") /\ AsciiLower(raw["type"].v) \in {"tts", "llm"}
     /\ ~HasStr(raw, "text") /\ ~NestedText(raw, AsciiLower(raw["type"].v)))
        => ~answer.ok

(***************************************************************************)
(* Properties of the Cli methods under any callers, of SpecCli.            *)
(***************************************************************************)
\* C4: device_id() with an explicit identifier returns that identifier, and the
\* call does no credential load, no device list fetch and no selection.
C4_ExplicitIdOnly ==
    \A t \in Tasks :
        (ret[t].op = "device_id" /\ device_id.some)
        => /\ ret[t].ok
           /\ ret[t].id = device_id.id
           /\ ret[t].loads = 0 /\ ret[t].fetches = 0 /\ ret[t].selects = 0
           /\ ~ret[t].listed

\* C4, reached: device_id() returned the explicit identifier with both cells
\* empty and the remote listing down.
C4_Witness ==
    \E t \in Callers :
        /\ ret[t].op = "device_id" /\ ret[t].ok /\ ret[t].id = "zz"
        /\ ~remote.up /\ xiaoai = 0 /\ ~device_info.set /\ loads = 0 /\ fetches = 0

\* C5: device_id() without an explicit identifier, the device list being in:
\* no device is the NoDevicesBound error and no prompt, one device is that
\* device and no prompt, two or more are one prompt and the device chosen in
\* it (a cancelled prompt being the call's error).
C5_ResolveByCount ==
    \A t \in Tasks :
        (ret[t].op = "device_id" /\ ~device_id.some /\ ret[t].listed)
        => LET r == ret[t]
           IN  /\ Len(r.info) = 0 => (~r.ok /\ r.err = "NoDevicesBound" /\ r.selects = 0)
               /\ Len(r.info) = 1 => (r.ok /\ r.id = r.info[1].device_id /\ r.selects = 0)
               /\ Len(r.info) >= 2 =>
                    /\ r.selects = 1
                    /\ r.ok => (r.choice \in 1..Len(r.info) /\ r.id = r.info[r.choice].device_id)
                    /\ ~r.ok => (r.err = "InputCancelled" /\ r.choice = 0)

\* C5, reached: two devices listed, one prompt, the second device chosen.
C5_Witness ==
    \E t \in Callers :
        /\ ret[t].op = "device_id" /\ ret[t].listed /\ Len(ret[t].info) = 2
        /\ ret[t].ok /\ ret[t].selects = 1 /\ ret[t].choice = 2 /\ ret[t].id = "d2"

\* C6 as stated: over any calls of xiaoai() the credential load is attempted at
\* most once.
C6_Original == loads <= 1

\* C6, amended: a successful load is cached, no load is attempted after it and
\* every successful call returns the one session of the cell; a failed load is
\* not cached, each failing call has made a load attempt of its own.
C6_SuccessCached ==
    /\ xiaoai /= 0 => loads = xiaoai
    /\ \A t \in Tasks :
        ret[t].op = "xiaoai"
        => IF ret[t].ok
           THEN xiaoai /= 0 /\ ret[t].session = xiaoai
           ELSE ret[t].loads = 1

\* C6, reached: one caller loaded the session, another got it from the cell.
C6_Witness ==
    \E t1, t2 \in Callers :
        /\ t1 /= t2
        /\ ret[t1].op = "xiaoai" /\ ret[t1].ok /\ ret[t1].loads = 1
        /\ ret[t2].op = "xiaoai" /\ ret[t2].ok /\ ret[t2].loads = 0
        /\ ret[t1].session = ret[t2].session

\* C7 as stated, for the callers that arrive while another caller is suspended
\* in the fetch: such a caller never starts a fetch of its own.
C7_Original == \A t \in Tasks : call[t].waited => call[t].fetches = 0

\* C7, amended: at most one fetch is in flight, at most one fetch succeeds and
\* none starts after it, every caller given a list is given the list of the
\* cell; a failed fetch is not cached, each caller it fails for ran it itself.
C7_OneFetchInFlight ==
    /\ Cardinality({t \in Tasks : pc[t] = "fetch"}) <= 1
    /\ fetchesOk <= 1
    /\ device_info.set => (fetchesOk = 1 /\ \A t \in Tasks : pc[t] /= "fetch")
    /\ \A t \in Tasks :
        ret[t].op = "device_info"
        => IF ret[t].ok
           THEN device_info.set /\ ret[t].info = device_info.value
           ELSE ret[t].err = "DeviceFetchFailed" => ret[t].fetches = 1

\* C7, reached: a caller queued behind the fetch of another, and both were
\* given the list of that one fetch.
C7_Witness ==
    \E t1, t2 \in Callers :
        /\ t1 /= t2
        /\ ret[t1].op = "device_info" /\ ret[t1].ok /\ ret[t1].fetches = 1
        /\ ret[t2].op = "device_info" /\ ret[t2].ok /\ ret[t2].fetches = 0 /\ ret[t2].waited
        /\ fetches = 1

(***************************************************************************)
(* Properties of main, of specification SpecMain.                          *)
(***************************************************************************)
Exited == mpc \in {"exit_ok", "exit_err"}
NeedDevice == Commands \ {"login", "device"}

\* C9: a record whose answer does not decode is an error of that record only;
\* the records of the response that do decode are all printed.
C9_SiblingsPrinted ==
    (Exited /\ command = "history" /\ response /= <<>>)
        => printed = Cardinality({i \in DOMAIN response : DecodeRecord(response[i]).ok})

\* C10 as stated: a command that needs a device, given an explicit identifier,
\* fails only if the session load or its own remote operation fails.
C10_Original ==
    (mpc = "exit_err" /\ device_id.some /\ command \in NeedDevice)
        => mainErr \in {"CredentialsMissing", "CredentialsInvalid", "TransportError",
                        "MalformedAnswer"}

\* C10, amended: say, play, pause, stop, volume, ask and ubus, given an explicit
\* identifier, never fetch the device list and fail only if the session load
\* or the remote operation fails; history fetches the list all the same, and
\* succeeds only with the identifier found in it.
C10_ExplicitSkipsList ==
    device_id.some =>
        /\ command \in NeedDevice \ {"history"} =>
             /\ fetches = 0
             /\ mpc = "exit_err" =>
                  mainErr \in {"CredentialsMissing", "CredentialsInvalid", "TransportError"}
        /\ (command = "history" /\ mpc = "exit_ok") =>
             /\ fetchesOk = 1
             /\ \E i \in DOMAIN device_info.value : device_info.value[i].device_id = device_id.id

\* C10, reached: say with an explicit identifier succeeded with the remote
\* listing down and no fetch made.
C10_Witness ==
    /\ mpc = "exit_ok" /\ command = "say" /\ device_id.some /\ target = device_id.id
    /\ ~remote.up /\ fetches = 0 /\ printed = 1
====
